---------------------------- MODULE Spec2Model ----------------------------
(***************************************************************************)
(* CityGuardAlert: the incident intake / scoring / notification pipeline.  *)
(*                                                                         *)
(*   DataAgent.fetch_all_data   -> fetch_weather_data, fetch_news_data     *)
(*   NotificationAgent.process_incidents                                   *)
(*        -> analyze_incident, filter_credible_sources      (gemini.py)    *)
(*        -> save_analyzed_incident                                        *)
(*        -> send_notifications -> get_eligible_users, send_alert_email    *)
(*                                                                         *)
(* Relevance scores are kept in units of 0.005 (0.3 is 60, 0.7 is 140,     *)
(* 1.0 is 200); every score a response carries is an even number of units, *)
(* so that the product with 0.5 is exact, as it is for the floats.         *)
(* Time is kept in hours.  Strings on which the code computes (lower(),    *)
(* `in`) are tuples of characters; all other strings are opaque tokens.    *)
(***************************************************************************)
EXTENDS Integers, Sequences, FiniteSets, TLC

(***************************************************************************)
(* Bounds of the model.                                                    *)
(***************************************************************************)
\* the clock stops advancing here (hours)
MaxTime == 25
\* incidents the extractors hand to process_incidents over the whole run
MaxIncidents == 2

(***************************************************************************)
(* Program constants.                                                      *)
(***************************************************************************)
\* notification_agent.py:40   relevance_score >= 0.3
MinStoreRelevance == 60
\* notification_agent.py:47   relevance_score >= 0.7
MinNotifyRelevance == 140
\* notification_agent.py:64   timedelta(hours=24)
DedupHours == 24
\* notification_agent.py:160  incident_severity_level >= 2
MinSeverityLevel == 2
\* gemini.py:67               relevance_score=0.5
FallbackRelevance == 100
\* data_agent.py:124          keywords[:3]
NumKeywords == 3

\* 'pageSize': 5, a parameter of the request (data_agent.py:131)
PageSize == 5

\* Python's None (a JSON null once parsed)
None == "<None>"

(***************************************************************************)
(* Strings: str.lower(), str.strip() and the `in` operator.                *)
(***************************************************************************)
UpperChars == <<"A","B","C","D","E","F","G","H","I","J","K","L","M",
                "N","O","P","Q","R","S","T","U","V","W","X","Y","Z">>

LowerChars == <<"a","b","c","d","e","f","g","h","i","j","k","l","m",
                "n","o","p","q","r","s","t","u","v","w","x","y","z">>

\* the lower-case letter of each upper-case letter
LowerOf ==
    [c \in {UpperChars[i] : i \in 1..Len(UpperChars)} |->
        LowerChars[CHOOSE i \in 1..Len(UpperChars) : UpperChars[i] = c]]

LowerChar(c) == IF c \in DOMAIN LowerOf THEN LowerOf[c] ELSE c

\* str.lower()
RECURSIVE Lower(_)
Lower(s) ==
    IF Len(s) = 0 THEN ""
    ELSE LowerChar(SubSeq(s, 1, 1)) \o Lower(SubSeq(s, 2, Len(s)))

\* a in b   (substring containment; the empty string is in every string)
IsSubstring(a, b) ==
    \E i \in 0..(Len(b) - Len(a)) : SubSeq(b, i + 1, i + Len(a)) = a

Whitespace == {" ", "\n", "\t"}

RECURSIVE LStrip(_)
LStrip(s) ==
    IF Len(s) > 0 /\ SubSeq(s, 1, 1) \in Whitespace
    THEN LStrip(SubSeq(s, 2, Len(s))) ELSE s

RECURSIVE RStrip(_)
RStrip(s) ==
    IF Len(s) > 0 /\ SubSeq(s, Len(s), Len(s)) \in Whitespace
    THEN RStrip(SubSeq(s, 1, Len(s) - 1)) ELSE s

\* str.strip()
Strip(s) == RStrip(LStrip(s))

\* DEFAULT_LOCATION of the deployment (data_agent.py:14)
DefaultLocations == {"New York, NY"}

(***************************************************************************)
(* IncidentAnalysis and the LLM service behind analyze_incident.           *)
(***************************************************************************)
IncidentAnalysisFields ==
    {"relevance_score", "severity", "category", "is_credible", "summary"}

\* the verdict returned when the call or the parse fails (gemini.py:66-72)
FallbackAnalysis ==
    [relevance_score |-> FallbackRelevance, severity |-> "medium",
     category |-> "other", is_credible |-> TRUE, summary |-> "title: description..."]

\* A JSON object of a response: `typed` holds the names of the fields that
\* are present with the type the schema gives them (float, str, str, bool,
\* str), `value` the values read from them.  The schema bounds no field:
\* any float is a relevance_score, any string a severity or a category.
Json(typed, r, sev, cat, cred, sum) ==
    [typed |-> typed,
     value |-> [relevance_score |-> r, severity |-> sev, category |-> cat,
                is_credible |-> cred, summary |-> sum]]

ValidObjects ==
    { Json(IncidentAnalysisFields, 58,  "high",     "crime",   TRUE,  "s58"),
      Json(IncidentAnalysisFields, 60,  "critical", "storm",   TRUE,  "s60"),
      Json(IncidentAnalysisFields, 138, "high",     "weather", TRUE,  "s138"),
      Json(IncidentAnalysisFields, 140, "high",     "weather", TRUE,  "s140"),
      Json(IncidentAnalysisFields, 160, "critical", "health",  FALSE, "s160") }

\* objects that parse as JSON and do not validate against IncidentAnalysis:
\* severity missing; relevance_score not a number
InvalidObjects ==
    { Json(IncidentAnalysisFields \ {"severity"}, 160, "high", "health", TRUE, "s160"),
      Json(IncidentAnalysisFields \ {"relevance_score"}, 160, "high", "crime", TRUE, "s160") }

\* what client.models.generate_content does for analyze_incident: it
\* raises, or it returns a response whose .text is None, "", text that is
\* not JSON, or a JSON object
AnalysisResponses ==
    { [kind |-> "raise"], [kind |-> "none"], [kind |-> "empty"], [kind |-> "notjson"] }
    \cup { [kind |-> "json", data |-> d] : d \in ValidObjects \cup InvalidObjects }

\* IncidentAnalysis(**data): every field present and of its type
SchemaValid(d) == IncidentAnalysisFields \subseteq d.typed

\* no IncidentAnalysis bound yet
NoAnalysis ==
    [relevance_score |-> 0, severity |-> "", category |-> "",
     is_credible |-> FALSE, summary |-> ""]

\* analyze_incident(title, description, source, location).  The result is
\* [raised, analysis].  The try block raises when the call raises, when
\* .text is None or "" (ValueError), when json.loads fails and when the
\* object does not validate; the except branch then builds the fallback,
\* whose summary takes description[:100]: a TypeError, raised to the
\* caller, when description is None.
analyze_incident(description, resp) ==
    IF resp.kind = "json" /\ SchemaValid(resp.data)
    THEN [raised |-> FALSE, analysis |-> resp.data.value]
    ELSE IF description = None
         THEN [raised |-> TRUE, analysis |-> NoAnalysis]
         ELSE [raised |-> FALSE, analysis |-> FallbackAnalysis]

(***************************************************************************)
(* filter_credible_sources: the free-text call.                            *)
(***************************************************************************)
\* what client.models.generate_content does for filter_credible_sources:
\* it raises, or it returns a response whose .text is None or a string
CredibilityResponses ==
    { [kind |-> "raise"], [kind |-> "none"] }
    \cup { [kind |-> "text", text |-> t] :
             t \in {"", "true", " True\n", "false", "True."} }

\* filter_credible_sources(content, source_url): content[:500] on None
\* raises inside the try, as the call may; both give True.  An empty or
\* differently worded answer is compared with "true" like any other.
filter_credible_sources(content, resp) ==
    IF content = None \/ resp.kind = "raise"
    THEN TRUE
    ELSE LET result == IF resp.kind = "text" /\ resp.text # ""
                       THEN Lower(Strip(resp.text)) ELSE ""
         IN  result = "true"

(***************************************************************************)
(* The combination rule and the two gates of process_incidents.            *)
(***************************************************************************)
\* the override without the product with 0.5
CombineVerdictNoHalving(analysis, is_credible) ==
    IF ~is_credible THEN [analysis EXCEPT !.is_credible = FALSE] ELSE analysis

\* an override that halves the score and leaves the flag
CombineVerdictHalvingOnly(analysis, is_credible) ==
    IF ~is_credible
    THEN [analysis EXCEPT !.relevance_score = analysis.relevance_score \div 2]
    ELSE analysis

\* notification_agent.py:35-37
CombineVerdict(analysis, is_credible) ==
    IF ~is_credible
    THEN [analysis EXCEPT !.is_credible = FALSE,
                          !.relevance_score = analysis.relevance_score \div 2]
    ELSE analysis

\* the store gate without its credibility test
StoreGateScoreOnly(analysis) == analysis.relevance_score >= MinStoreRelevance

\* notification_agent.py:40
StoreGate(analysis) ==
    analysis.relevance_score >= MinStoreRelevance /\ analysis.is_credible

\* the dispatch gate without its relevance test
NotifyGateSeverityOnly(analysis) == analysis.severity \in {"high", "critical"}

\* notification_agent.py:47
NotifyGate(analysis) ==
    /\ analysis.severity \in {"high", "critical"}
    /\ analysis.relevance_score >= MinNotifyRelevance

(***************************************************************************)
(* The extractors of DataAgent.                                            *)
(***************************************************************************)
\* data_agent.py:62
SevereConditions == {"thunderstorm", "snow", "rain", "drizzle", "mist", "fog"}

\* a key the provider's JSON does not carry
Missing == "<missing>"

\* dict.get(key, default)
Get(value, default) == IF value = Missing THEN default ELSE value

\* what the two calls of fetch_weather_data meet: the current-weather call
\* times out, answers non-2xx or answers JSON; the alerts call, made when
\* the JSON has coordinates, times out, answers non-200 or answers JSON
WeatherResponse(status, weather, alerts_status, alerts) ==
    [status |-> status, weather |-> weather, coord |-> TRUE,
     alerts_status |-> alerts_status, alerts |-> alerts]

WeatherResponses ==
    { WeatherResponse("timeout", <<>>, "ok", <<>>),
      WeatherResponse("http_error", <<>>, "ok", <<>>),
      WeatherResponse("ok", <<[main |-> "Clear", description |-> "clear sky"]>>, "ok", <<>>),
      WeatherResponse("ok", <<[main |-> "Rain", description |-> "light rain"]>>, "non200", <<>>),
      WeatherResponse("ok", <<[main |-> "Rain", description |-> "light rain"]>>, "timeout", <<>>),
      WeatherResponse("ok", <<[main |-> "Clear", description |-> "clear sky"]>>, "ok",
                      <<[event |-> "Flood", description |-> None]>>),
      WeatherResponse("ok", <<[main |-> "Rain", description |-> "light rain"]>>, "ok",
                      <<[event |-> "Flood", description |-> None]>>) }

IsSevere(w) == \E c \in SevereConditions : IsSubstring(c, Lower(Get(w.main, "")))

\* data_agent.py:64-72
ConditionIncident(loc, w) ==
    [title |-> "Weather Alert: " \o Get(w.main, "Unknown"),
     description |-> "Current weather conditions: " \o w.description,
     source |-> "weather", location |-> loc, url |-> "https://openweathermap.org/city/"]

\* data_agent.py:96-104
AlertIncident(loc, a) ==
    [title |-> "Weather Alert: " \o Get(a.event, "Weather Warning"),
     description |-> Get(a.description, "Weather alert issued for your area"),
     source |-> "weather", location |-> loc, url |-> "https://openweathermap.org"]

\* an extractor that returns nothing when either of its calls fails
fetch_weather_data_AllOrNothing(loc, r) ==
    IF r.status # "ok" \/ (r.coord /\ r.alerts_status # "ok") THEN <<>>
    ELSE LET severe == SelectSeq(r.weather, IsSevere)
         IN  [i \in 1..Len(severe) |-> ConditionIncident(loc, severe[i])]
             \o [i \in 1..Len(r.alerts) |-> AlertIncident(loc, r.alerts[i])]

\* fetch_weather_data: the list it returns.  A failure of the first call
\* leaves the list empty; a failure of the alerts call (an exception or a
\* status other than 200) leaves the condition incidents in it.
fetch_weather_data(loc, r) ==
    IF r.status # "ok" THEN <<>>
    ELSE LET severe == SelectSeq(r.weather, IsSevere)
             conditions == [i \in 1..Len(severe) |-> ConditionIncident(loc, severe[i])]
             alerts == [i \in 1..Len(r.alerts) |-> AlertIncident(loc, r.alerts[i])]
         IN  IF r.coord /\ r.alerts_status = "ok"
             THEN conditions \o alerts ELSE conditions

\* data_agent.py:122
Keywords == <<"accident", "emergency", "police", "fire", "traffic",
              "closure", "incident", "alert", "warning">>

Article(title, description) == [title |-> title, description |-> description, url |-> "u"]

NewsResponse(status, articles) == [status |-> status, articles |-> articles]

\* what the queries for keywords[:3] meet, one response per keyword
NewsResponses ==
    { <<NewsResponse("ok", <<>>), NewsResponse("ok", <<>>), NewsResponse("ok", <<>>)>>,
      <<NewsResponse("ok", <<Article("Fire downtown", "a fire")>>),
        NewsResponse("ok", <<>>), NewsResponse("ok", <<>>)>>,
      <<NewsResponse("ok", <<Article("Fire downtown", "a fire")>>),
        NewsResponse("ok", <<Article("Fire downtown", "a fire")>>),
        NewsResponse("ok", <<>>)>>,
      <<NewsResponse("ok", <<Article("Fire downtown", "a fire")>>),
        NewsResponse("timeout", <<>>), NewsResponse("ok", <<>>)>>,
      <<NewsResponse("http_error", <<>>), NewsResponse("ok", <<>>), NewsResponse("ok", <<>>)>>,
      <<NewsResponse("ok", <<Article("[Removed]", "gone"), Article("Road closed", None),
                             Article("", "untitled")>>),
        NewsResponse("ok", <<>>), NewsResponse("ok", <<>>)>> }

\* a filter that lets the removed-marker through
ArticleKeptWithRemoved(a) ==
    /\ Get(a.title, None) \notin {None, ""}
    /\ Get(a.description, None) \notin {None, ""}

\* data_agent.py:142-147
ArticleKept(a) ==
    /\ Get(a.title, None) \notin {None, ""}
    /\ Get(a.description, None) \notin {None, ""}
    /\ ~IsSubstring("[Removed]", Get(a.title, ""))

\* data_agent.py:149-157
NewsIncident(loc, a) ==
    [title |-> a.title, description |-> a.description,
     source |-> "news", location |-> loc, url |-> Get(a.url, "")]

\* the for loop over keywords[:3], from keyword k on: a failed request
\* raises out of the loop, and what was appended before it is returned
RECURSIVE NewsFrom(_, _, _)
NewsFrom(loc, rs, k) ==
    IF k > NumKeywords \/ k > Len(Keywords) THEN <<>>
    ELSE IF rs[k].status # "ok" THEN <<>>
    ELSE LET kept == SelectSeq(rs[k].articles, ArticleKept)
         IN  [i \in 1..Len(kept) |-> NewsIncident(loc, kept[i])] \o NewsFrom(loc, rs, k + 1)

fetch_news_data(loc, rs) == NewsFrom(loc, rs, 1)

\* the keywords the loop sends a request for, from keyword k on: the loop
\* ends with the first request that fails
RECURSIVE QueriedFrom(_, _)
QueriedFrom(rs, k) ==
    IF k > NumKeywords \/ k > Len(Keywords) THEN <<>>
    ELSE IF rs[k].status # "ok" THEN <<Keywords[k]>>
    ELSE <<Keywords[k]>> \o QueriedFrom(rs, k + 1)

\* what one keyword query can meet when fetch_news_data is run on its own:
\* a timeout, a non-2xx answer, or a page of articles; the provider is not
\* bound to the pageSize asked for
ArticlePages ==
    { <<>>,
      <<Article("Fire downtown", "a fire")>>,
      <<Article("[Removed]", "gone"), Article("Bridge closed", "a closure"),
        Article("Road closed", None)>>,
      <<Article("", "untitled"), Article(Missing, "no title"),
        Article("Crash [Removed]", "x"), Article("No text", "")>>,
      [i \in 1..(PageSize + 1) |-> Article("Fire downtown", "a fire")] }

KeywordResponses ==
    { NewsResponse("timeout", <<>>), NewsResponse("http_error", <<>>) }
    \cup { NewsResponse("ok", page) : page \in ArticlePages }

\* no run of fetch_news_data on its own
NoNewsRun == [done |-> FALSE, queried |-> <<>>, incidents |-> <<>>]

\* a list with the news incidents in front
AllIncidentsNewsFirst(weather_incidents, news_incidents) ==
    news_incidents \o weather_incidents

\* data_agent.py:25   all_incidents = weather_incidents + news_incidents
AllIncidents(weather_incidents, news_incidents) ==
    weather_incidents \o news_incidents

NoIncidentData ==
    [title |-> "", description |-> "", source |-> "", location |-> "", url |-> ""]

(***************************************************************************)
(* The tables and the dispatcher's pure parts.                             *)
(***************************************************************************)
\* the User table: id = position.  /subscribe stores email_notifications
\* = True (routes.py:114-119); the fourth row has opted out.
UserTable ==
    << [location |-> "new york",          email_notifications |-> TRUE],
       [location |-> "New York, NY, USA", email_notifications |-> TRUE],
       [location |-> "Boston",            email_notifications |-> TRUE],
       [location |-> "New York, NY",      email_notifications |-> FALSE] >>

\* the containment test in one direction only
LocationMatchesOneWay(user_location, incident_location) ==
    IsSubstring(Lower(user_location), Lower(incident_location))

\* notification_agent.py:155
LocationMatches(user_location, incident_location) ==
    \/ IsSubstring(Lower(user_location), Lower(incident_location))
    \/ IsSubstring(Lower(incident_location), Lower(user_location))

\* notification_agent.py:157-158   severity_levels.get(severity, 2)
SeverityLevel(severity) ==
    CASE severity = "low" -> 1
      [] severity = "medium" -> 2
      [] severity = "high" -> 3
      [] severity = "critical" -> 4
      [] OTHER -> 2

\* a selection by equality of the two location strings
EligibleIdsExactLocation(table, row) ==
    SelectSeq([i \in 1..Len(table) |-> i],
              LAMBDA u : /\ table[u].email_notifications
                         /\ table[u].location = row.location)

\* get_eligible_users when the query succeeds: the ids, in table order
EligibleIds(table, row) ==
    SelectSeq([i \in 1..Len(table) |-> i],
              LAMBDA u : /\ table[u].email_notifications
                         /\ LocationMatches(table[u].location, row.location)
                         /\ SeverityLevel(row.severity) >= MinSeverityLevel)

\* outcomes of email_service.send_alert_email(user, incident)
TransportOutcomes == {"true", "false", "raise"}

\* an entry that records every attempt as sent
LogEntryAlwaysSent(incident_id, user_id, outcome) ==
    [incident_id |-> incident_id, user_id |-> user_id, notification_type |-> "email",
     status |-> "sent", error_message |-> None]

\* notification_agent.py:115-121 and 128-134
LogEntry(incident_id, user_id, outcome) ==
    [incident_id |-> incident_id, user_id |-> user_id, notification_type |-> "email",
     status |-> IF outcome = "true" THEN "sent" ELSE "failed",
     error_message |-> CASE outcome = "true" -> None
                         [] outcome = "false" -> "Email sending failed"
                         [] OTHER -> "str(e)"]

\* a loop that a raising transport leaves
NextUserStopOnRaise(i, outcome, n) == IF outcome = "raise" THEN n + 1 ELSE i + 1

\* the for loop of send_notifications: the index after the attempt on
\* eligible[i]; the per-user try/except keeps the loop going
NextUser(i, outcome, n) == i + 1

\* a lookup whose cutoff comparison is reversed
ExistingBeforeCutoff(table, title, source, t) ==
    { i \in 1..Len(table) : /\ table[i].title = title
                            /\ table[i].source = source
                            /\ table[i].created_at < t - DedupHours }

\* the rows the lookup of save_analyzed_incident can return
\* (notification_agent.py:60-65): same title and source, created within
\* the last 24 hours
Existing(table, title, source, t) ==
    { i \in 1..Len(table) : /\ table[i].title = title
                            /\ table[i].source = source
                            /\ table[i].created_at >= t - DedupHours }

\* notification_agent.py:78-90, with the column defaults of models.py
NewRow(data, a, t) ==
    [title |-> data.title, description |-> data.description, source |-> data.source,
     location |-> data.location, category |-> a.category, severity |-> a.severity,
     ai_summary |-> a.summary, relevance_score |-> a.relevance_score,
     is_verified |-> a.is_credible, created_at |-> t, updated_at |-> t]

\* notification_agent.py:69-74
UpdatedRow(row, a, t) ==
    [row EXCEPT !.ai_summary = a.summary, !.relevance_score = a.relevance_score,
                !.severity = a.severity, !.category = a.category,
                !.is_verified = a.is_credible, !.updated_at = t]

\* a rollback that takes the incident's row with it (a save that had not
\* committed)
RolledBackWithIncident(table) == SubSeq(table, 1, Len(table) - 1)

\* db.session.rollback() in send_notifications: what it leaves of the
\* Incident table.  The row was committed by save_analyzed_incident; only
\* the NotificationLog entries added since are pending.
RolledBack(table) == table

\* a failed save whose pending insert or update stays in the table
RollbackSaveKeepsPending(table, pending) == pending

\* db.session.rollback() in save_analyzed_incident (line 99): `pending` is
\* the table with the insert or update of this call, `table` the committed
\* one, which is what the rollback leaves
RollbackSave(table, pending) == table

(***************************************************************************)
(* State.                                                                  *)
(***************************************************************************)
\* the threads that can run fetch_all_data: the initial fetch of app.py:69
\* and the scheduler's job of app.py:59-65
Cycles == {1, 2}

\* a start that is skipped while another cycle is running
MayStartWhenNoneRuns(p, places) == \A q \in Cycles : places[q] = "idle"

\* the entry of fetch_all_data (data_agent.py:17-21): a thread that is not
\* in a cycle starts one when its trigger fires; no lock is taken and the
\* other thread is not looked at
MayStart(p, places) == places[p] = "idle"

\* the threads a sequential run uses
SeqCycles == {1}

VARIABLES
    now,               \* datetime.utcnow(), in hours
    default_location,  \* DataAgent.default_location
    users,             \* the User table
    incidents,         \* the Incident table (committed rows; id = position)
    logs,              \* the NotificationLog table (committed rows)
    fetched,           \* incidents extracted so far (bounded by MaxIncidents)
    weather_resp,      \* what the HTTP calls of fetch_weather_data met
    news_resp,         \* what the HTTP calls of fetch_news_data met
    pc,                \* where each cycle stands
    batch,             \* the incidents of the cycle not yet processed
    processed,         \* processed_incidents of process_incidents
    cur,               \* incident_data of the current iteration
    llm,               \* the response analyze_incident met
    primary,           \* the verdict analyze_incident returned
    raised,            \* analyze_incident raised to process_incidents
    cred_resp,         \* the response filter_credible_sources met
    is_credible,       \* what filter_credible_sources returned
    analysis,          \* the analysis object, after lines 35-37 the effective verdict
    found,             \* `existing`: the id the lookup returned, 0 for None
    incident,          \* what save_analyzed_incident returned, 0 for None
    save,              \* how save_analyzed_incident ended
    users_ok,          \* whether the query of get_eligible_users succeeded
    eligible,          \* eligible_users
    next_user,         \* position of the for loop of send_notifications
    session,           \* NotificationLog entries added to db.session, uncommitted
    attempts,          \* calls of send_alert_email made by this send_notifications
    logs_before,       \* rows of NotificationLog when send_notifications began
    log_commit,        \* how the commit of send_notifications ended
    news_in,           \* fetch_news_data run on its own: the responses it meets
    news_out           \* fetch_news_data run on its own: requests made, list returned

shared == <<now, default_location, users, incidents, logs, fetched>>

extract == <<weather_resp, news_resp>>

classify == <<llm, primary, raised, cred_resp, is_credible, analysis>>

store == <<found, incident, save>>

dispatch == <<users_ok, eligible, next_user, session, attempts, logs_before, log_commit>>

newsrun == <<news_in, news_out>>

vars == <<shared, extract, pc, batch, processed, cur, classify, store, dispatch, newsrun>>

NoResponse == [kind |-> "-"]

\* no HTTP call made yet
NoFetch == [status |-> "-"]

\* the pipeline before its first cycle
InitPipeline ==
    /\ now = 0
    /\ default_location \in DefaultLocations
    /\ users = UserTable
    /\ incidents = <<>>
    /\ logs = <<>>
    /\ fetched = 0
    /\ weather_resp = [p \in Cycles |-> NoFetch]
    /\ news_resp = [p \in Cycles |-> <<>>]
    /\ pc = [p \in Cycles |-> "idle"]
    /\ batch = [p \in Cycles |-> <<>>]
    /\ processed = [p \in Cycles |-> <<>>]
    /\ cur = [p \in Cycles |-> NoIncidentData]
    /\ llm = [p \in Cycles |-> NoResponse]
    /\ primary = [p \in Cycles |-> NoAnalysis]
    /\ raised = [p \in Cycles |-> FALSE]
    /\ cred_resp = [p \in Cycles |-> NoResponse]
    /\ is_credible = [p \in Cycles |-> TRUE]
    /\ analysis = [p \in Cycles |-> NoAnalysis]
    /\ found = [p \in Cycles |-> 0]
    /\ incident = [p \in Cycles |-> 0]
    /\ save = [p \in Cycles |-> "-"]
    /\ users_ok = [p \in Cycles |-> TRUE]
    /\ eligible = [p \in Cycles |-> <<>>]
    /\ next_user = [p \in Cycles |-> 1]
    /\ session = [p \in Cycles |-> <<>>]
    /\ attempts = [p \in Cycles |-> <<>>]
    /\ logs_before = [p \in Cycles |-> 0]
    /\ log_commit = [p \in Cycles |-> "-"]

Init ==
    /\ InitPipeline
    /\ news_in = <<>>
    /\ news_out = NoNewsRun

(***************************************************************************)
(* DataAgent.fetch_all_data (data_agent.py:17-36).                         *)
(***************************************************************************)
\* line 22: weather_incidents = self.fetch_weather_data().  No cycle starts
\* once MaxIncidents incidents have been extracted.
FetchWeather(p) ==
    /\ MayStart(p, pc)
    /\ fetched < MaxIncidents
    /\ \E r \in WeatherResponses :
         LET found_now == fetch_weather_data(default_location, r)
         IN  /\ fetched + Len(found_now) <= MaxIncidents
             /\ batch' = [batch EXCEPT ![p] = found_now]
             /\ fetched' = fetched + Len(found_now)
             /\ weather_resp' = [weather_resp EXCEPT ![p] = r]
    /\ news_resp' = [news_resp EXCEPT ![p] = <<>>]
    /\ pc' = [pc EXCEPT ![p] = "news"]
    /\ UNCHANGED <<now, default_location, users, incidents, logs>>
    /\ UNCHANGED <<processed, cur, classify, store, dispatch>>
    /\ UNCHANGED newsrun

\* lines 23-33: news_incidents, all_incidents, and process_incidents when
\* the combined list is not empty
FetchNews(p) ==
    /\ pc[p] = "news"
    /\ \E rs \in NewsResponses :
         LET found_now == fetch_news_data(default_location, rs)
             all_incidents == AllIncidents(batch[p], found_now)
         IN  /\ fetched + Len(found_now) <= MaxIncidents
             /\ batch' = [batch EXCEPT ![p] = all_incidents]
             /\ fetched' = fetched + Len(found_now)
             /\ pc' = [pc EXCEPT ![p] = IF all_incidents # <<>> THEN "process" ELSE "idle"]
             /\ news_resp' = [news_resp EXCEPT ![p] = rs]
    /\ UNCHANGED weather_resp
    /\ processed' = [processed EXCEPT ![p] = <<>>]
    /\ UNCHANGED <<now, default_location, users, incidents, logs>>
    /\ UNCHANGED <<cur, classify, store, dispatch>>
    /\ UNCHANGED newsrun

(***************************************************************************)
(* NotificationAgent.process_incidents (notification_agent.py:12-54).      *)
(***************************************************************************)
\* line 18: the next incident_data of the list; the names of the iteration
\* before are rebound or no longer read
NextIncident(p) ==
    /\ pc[p] = "process"
    /\ batch[p] # <<>>
    /\ cur' = [cur EXCEPT ![p] = Head(batch[p])]
    /\ batch' = [batch EXCEPT ![p] = Tail(batch[p])]
    /\ pc' = [pc EXCEPT ![p] = "analyze"]
    /\ llm' = [llm EXCEPT ![p] = NoResponse]
    /\ primary' = [primary EXCEPT ![p] = NoAnalysis]
    /\ raised' = [raised EXCEPT ![p] = FALSE]
    /\ cred_resp' = [cred_resp EXCEPT ![p] = NoResponse]
    /\ is_credible' = [is_credible EXCEPT ![p] = TRUE]
    /\ analysis' = [analysis EXCEPT ![p] = NoAnalysis]
    /\ found' = [found EXCEPT ![p] = 0]
    /\ incident' = [incident EXCEPT ![p] = 0]
    /\ save' = [save EXCEPT ![p] = "-"]
    /\ users_ok' = [users_ok EXCEPT ![p] = TRUE]
    /\ eligible' = [eligible EXCEPT ![p] = <<>>]
    /\ next_user' = [next_user EXCEPT ![p] = 1]
    /\ attempts' = [attempts EXCEPT ![p] = <<>>]
    /\ logs_before' = [logs_before EXCEPT ![p] = Len(logs)]
    /\ log_commit' = [log_commit EXCEPT ![p] = "-"]
    /\ weather_resp' = [weather_resp EXCEPT ![p] = NoFetch]
    /\ news_resp' = [news_resp EXCEPT ![p] = <<>>]
    /\ UNCHANGED <<shared, processed, session>>
    /\ UNCHANGED newsrun

\* lines 53-54: the list is exhausted, process_incidents returns and the
\* cycle ends
ReturnProcessed(p) ==
    /\ pc[p] = "process"
    /\ batch[p] = <<>>
    /\ pc' = [pc EXCEPT ![p] = "idle"]
    /\ cur' = [cur EXCEPT ![p] = NoIncidentData]
    /\ llm' = [llm EXCEPT ![p] = NoResponse]
    /\ primary' = [primary EXCEPT ![p] = NoAnalysis]
    /\ raised' = [raised EXCEPT ![p] = FALSE]
    /\ cred_resp' = [cred_resp EXCEPT ![p] = NoResponse]
    /\ is_credible' = [is_credible EXCEPT ![p] = TRUE]
    /\ analysis' = [analysis EXCEPT ![p] = NoAnalysis]
    /\ found' = [found EXCEPT ![p] = 0]
    /\ incident' = [incident EXCEPT ![p] = 0]
    /\ save' = [save EXCEPT ![p] = "-"]
    /\ users_ok' = [users_ok EXCEPT ![p] = TRUE]
    /\ eligible' = [eligible EXCEPT ![p] = <<>>]
    /\ next_user' = [next_user EXCEPT ![p] = 1]
    /\ attempts' = [attempts EXCEPT ![p] = <<>>]
    /\ logs_before' = [logs_before EXCEPT ![p] = 0]
    /\ log_commit' = [log_commit EXCEPT ![p] = "-"]
    /\ processed' = [processed EXCEPT ![p] = <<>>]
    /\ UNCHANGED <<shared, extract, batch, session>>
    /\ UNCHANGED newsrun

\* lines 21-26: analysis = analyze_incident(...); an exception leaves the
\* try block for line 50 and the iteration is over
Analyze(p) ==
    /\ pc[p] = "analyze"
    /\ \E resp \in AnalysisResponses :
         LET r == analyze_incident(cur[p].description, resp)
         IN  /\ llm' = [llm EXCEPT ![p] = resp]
             /\ raised' = [raised EXCEPT ![p] = r.raised]
             /\ primary' = [primary EXCEPT ![p] = r.analysis]
             /\ analysis' = [analysis EXCEPT ![p] = r.analysis]
             /\ pc' = [pc EXCEPT ![p] = IF r.raised THEN "iter_done" ELSE "credibility"]
    /\ UNCHANGED <<shared, extract, batch, processed, cur, cred_resp, is_credible, store, dispatch>>
    /\ UNCHANGED newsrun

\* lines 29-37: is_credible = filter_credible_sources(...), then the
\* override of the analysis
Credibility(p) ==
    /\ pc[p] = "credibility"
    /\ \E resp \in CredibilityResponses :
         LET c == filter_credible_sources(cur[p].description, resp)
         IN  /\ cred_resp' = [cred_resp EXCEPT ![p] = resp]
             /\ is_credible' = [is_credible EXCEPT ![p] = c]
             /\ analysis' = [analysis EXCEPT ![p] = CombineVerdict(analysis[p], c)]
    /\ llm' = [llm EXCEPT ![p] = NoResponse]
    /\ pc' = [pc EXCEPT ![p] = "gate"]
    /\ UNCHANGED <<shared, extract, batch, processed, cur, primary, raised, store, dispatch>>
    /\ UNCHANGED newsrun

\* line 40: the store gate.  primary, is_credible and the response are not
\* read after it.
Gate(p) ==
    /\ pc[p] = "gate"
    /\ pc' = [pc EXCEPT ![p] = IF StoreGate(analysis[p]) THEN "save_query" ELSE "iter_done"]
    /\ primary' = [primary EXCEPT ![p] = NoAnalysis]
    /\ cred_resp' = [cred_resp EXCEPT ![p] = NoResponse]
    /\ is_credible' = [is_credible EXCEPT ![p] = TRUE]
    /\ UNCHANGED <<shared, extract, batch, processed, cur, llm, raised, analysis, store, dispatch>>
    /\ UNCHANGED newsrun

(***************************************************************************)
(* save_analyzed_incident (notification_agent.py:56-100).                  *)
(***************************************************************************)
\* lines 60-65: the lookup.  It raises (lines 97-100: rollback, None) or
\* returns a row of Existing, None when there is none.
SaveQuery(p) ==
    /\ pc[p] = "save_query"
    /\ \/ /\ found' = [found EXCEPT ![p] = 0]
          /\ incident' = [incident EXCEPT ![p] = 0]
          /\ save' = [save EXCEPT ![p] = "query_failed"]
          /\ pc' = [pc EXCEPT ![p] = "iter_done"]
       \/ /\ LET rows == Existing(incidents, cur[p].title, cur[p].source, now)
             IN  \E f \in (IF rows = {} THEN {0} ELSE rows) :
                    found' = [found EXCEPT ![p] = f]
          /\ pc' = [pc EXCEPT ![p] = "save_commit"]
          /\ UNCHANGED <<incident, save>>
    /\ UNCHANGED <<shared, extract, batch, processed, cur, classify, dispatch>>
    /\ UNCHANGED newsrun

\* lines 67-95: the update or the insert, and db.session.commit(); lines
\* 43-44 append the row to processed_incidents.  A commit that raises is
\* rolled back and None is returned (lines 97-100).
SaveCommit(p) ==
    /\ pc[p] = "save_commit"
    /\ LET pending ==
               IF found[p] = 0
               THEN Append(incidents, NewRow(cur[p], analysis[p], now))
               ELSE [incidents EXCEPT ![found[p]] = UpdatedRow(@, analysis[p], now)]
       IN  \/ /\ incidents' = pending
              /\ incident' = [incident EXCEPT ![p] =
                                IF found[p] = 0 THEN Len(incidents) + 1 ELSE found[p]]
              /\ processed' = [processed EXCEPT ![p] = Append(@, incident'[p])]
              /\ save' = [save EXCEPT ![p] = IF found[p] = 0 THEN "inserted" ELSE "updated"]
              /\ pc' = [pc EXCEPT ![p] = "notify_gate"]
           \/ /\ incidents' = RollbackSave(incidents, pending)
              /\ incident' = [incident EXCEPT ![p] = 0]
              /\ save' = [save EXCEPT ![p] = "commit_failed"]
              /\ pc' = [pc EXCEPT ![p] = "iter_done"]
              /\ UNCHANGED processed
    /\ found' = [found EXCEPT ![p] = 0]
    /\ UNCHANGED <<now, default_location, users, logs, fetched>>
    /\ UNCHANGED extract
    /\ UNCHANGED <<batch, cur, classify, dispatch>>
    /\ UNCHANGED newsrun

\* line 47: the dispatch gate
DispatchGate(p) ==
    /\ pc[p] = "notify_gate"
    /\ pc' = [pc EXCEPT ![p] = IF NotifyGate(analysis[p]) THEN "eligible" ELSE "iter_done"]
    /\ UNCHANGED <<shared, extract, batch, processed, cur, classify, store, dispatch>>
    /\ UNCHANGED newsrun

(***************************************************************************)
(* send_notifications (notification_agent.py:102-142).                     *)
(***************************************************************************)
\* line 106: eligible_users = self.get_eligible_users(incident); a query
\* that raises gives [] (lines 165-167)
GetEligibleUsers(p) ==
    /\ pc[p] = "eligible"
    /\ \/ /\ users_ok' = [users_ok EXCEPT ![p] = FALSE]
          /\ eligible' = [eligible EXCEPT ![p] = <<>>]
       \/ /\ users_ok' = [users_ok EXCEPT ![p] = TRUE]
          /\ eligible' = [eligible EXCEPT ![p] = EligibleIds(users, incidents[incident[p]])]
    /\ next_user' = [next_user EXCEPT ![p] = 1]
    /\ pc' = [pc EXCEPT ![p] = "send"]
    /\ UNCHANGED <<shared, extract, batch, processed, cur, classify, store>>
    /\ UNCHANGED <<session, attempts, logs_before, log_commit>>
    /\ UNCHANGED newsrun

\* lines 108-135: one pass of the loop: the transport is called for an
\* opted-in user and one NotificationLog entry is added to the session
SendOne(p) ==
    /\ pc[p] = "send"
    /\ next_user[p] <= Len(eligible[p])
    /\ LET u == eligible[p][next_user[p]]
       IN  \E outcome \in TransportOutcomes :
             /\ IF users[u].email_notifications
                THEN /\ attempts' = [attempts EXCEPT ![p] =
                                       Append(@, [user |-> u, outcome |-> outcome])]
                     /\ session' = [session EXCEPT ![p] =
                                      Append(@, LogEntry(incident[p], u, outcome))]
                ELSE UNCHANGED <<attempts, session>>
             /\ next_user' = [next_user EXCEPT ![p] =
                                NextUser(next_user[p], outcome, Len(eligible[p]))]
    /\ UNCHANGED <<shared, extract, pc, batch, processed, cur, classify, store>>
    /\ UNCHANGED <<users_ok, eligible, logs_before, log_commit>>
    /\ UNCHANGED newsrun

\* lines 137-142: db.session.commit() after the loop; a commit that raises
\* is rolled back, and the entries of the whole batch with it
CommitLogs(p) ==
    /\ pc[p] = "send"
    /\ next_user[p] > Len(eligible[p])
    /\ \/ /\ logs' = logs \o session[p]
          /\ log_commit' = [log_commit EXCEPT ![p] = "committed"]
          /\ UNCHANGED incidents
       \/ /\ incidents' = RolledBack(incidents)
          /\ log_commit' = [log_commit EXCEPT ![p] = "rolled_back"]
          /\ UNCHANGED logs
    /\ session' = [session EXCEPT ![p] = <<>>]
    /\ pc' = [pc EXCEPT ![p] = "iter_done"]
    /\ UNCHANGED <<now, default_location, users, fetched>>
    /\ UNCHANGED extract
    /\ UNCHANGED <<batch, processed, cur, classify, store>>
    /\ UNCHANGED <<users_ok, eligible, next_user, attempts, logs_before>>
    /\ UNCHANGED newsrun

\* the end of one pass of the loop of process_incidents
EndIteration(p) ==
    /\ pc[p] = "iter_done"
    /\ pc' = [pc EXCEPT ![p] = "process"]
    /\ UNCHANGED <<shared, extract, batch, processed, cur, classify, store, dispatch>>
    /\ UNCHANGED newsrun

\* time passes.  The pipeline reads the clock in save_analyzed_incident
\* only, and what it reads decides something only when a row with the
\* title and source looked up exists: the clock is advanced there, by the
\* length of the dedup window or by an hour more.
Tick ==
    /\ \E p \in Cycles :
         /\ pc[p] = "save_query"
         /\ \E i \in 1..Len(incidents) :
              incidents[i].title = cur[p].title /\ incidents[i].source = cur[p].source
    /\ \E d \in {DedupHours, DedupHours + 1} :
         /\ now + d <= MaxTime
         /\ now' = now + d
    /\ UNCHANGED <<default_location, users, incidents, logs, fetched>>
    /\ UNCHANGED extract
    /\ UNCHANGED <<pc, batch, processed, cur, classify, store, dispatch>>
    /\ UNCHANGED newsrun

CycleStep(p) ==
    \/ FetchWeather(p)
    \/ FetchNews(p)
    \/ NextIncident(p)
    \/ ReturnProcessed(p)
    \/ Analyze(p)
    \/ Credibility(p)
    \/ Gate(p)
    \/ SaveQuery(p)
    \/ SaveCommit(p)
    \/ DispatchGate(p)
    \/ GetEligibleUsers(p)
    \/ SendOne(p)
    \/ CommitLogs(p)
    \/ EndIteration(p)

\* one cycle at a time: each fetch_all_data call returns before the next
Next == Tick \/ \E p \in SeqCycles : CycleStep(p)

Spec == Init /\ [][Next]_vars

\* the initial fetch and the scheduler's job as two threads: the trigger
\* of one may fire while the other is in its cycle
NextConc == Tick \/ \E p \in Cycles : CycleStep(p)

SpecConc == Init /\ [][NextConc]_vars

(***************************************************************************)
(* fetch_news_data run on its own (data_agent.py:116-167), on every        *)
(* combination of answers to the keyword queries.                          *)
(***************************************************************************)
InitNews ==
    /\ InitPipeline
    /\ news_in \in [1..NumKeywords -> KeywordResponses]
    /\ news_out = NoNewsRun

ExtractNews ==
    /\ ~news_out.done
    /\ news_out' = [done |-> TRUE,
                    queried |-> QueriedFrom(news_in, 1),
                    incidents |-> fetch_news_data(default_location, news_in)]
    /\ UNCHANGED <<shared, extract, pc, batch, processed, cur, classify, store, dispatch>>
    /\ UNCHANGED news_in

NextNews == ExtractNews

SpecNews == InitNews /\ [][NextNews]_vars


(***************************************************************************)
(* Properties.                                                             *)
(***************************************************************************)
\* the analysis-derived columns of a row are those of verdict a
CarriesVerdict(row, a) ==
    /\ row.ai_summary = a.summary
    /\ row.relevance_score = a.relevance_score
    /\ row.severity = a.severity
    /\ row.category = a.category
    /\ row.is_verified = a.is_credible

\* a verdict that passes line 40, written out
PassesStoreGate(a) == a.relevance_score >= MinStoreRelevance /\ a.is_credible = TRUE

\* a verdict that passes line 47, written out
PassesNotifyGate(a) ==
    (a.severity = "high" \/ a.severity = "critical") /\ a.relevance_score >= MinNotifyRelevance

\* C1: every row of the Incident table is verified and has relevance_score
\* >= 0.3, and the table changes only in a step of save_analyzed_incident
\* made for an effective verdict that passes the store gate, the row
\* written carrying that verdict: a verdict with relevance below 0.3 or
\* is_credible false inserts and updates nothing.
C1_StoreGate ==
    [][ /\ \A i \in 1..Len(incidents') :
             incidents'[i].is_verified /\ incidents'[i].relevance_score >= MinStoreRelevance
        /\ incidents' # incidents =>
             \E p \in Cycles :
                /\ pc[p] = "save_commit"
                /\ PassesStoreGate(analysis[p])
                /\ incident'[p] \in 1..Len(incidents')
                /\ CarriesVerdict(incidents'[incident'[p]], analysis[p])
                /\ \A i \in 1..Len(incidents) :
                     i # incident'[p] => incidents'[i] = incidents[i]
      ]_vars

\* C1: an iteration ended at the store gate for a verdict of relevance 0.29
\* while a row of relevance 0.30 is in the table
C1_Witness ==
    \E p \in Cycles :
       /\ pc[p] = "iter_done"
       /\ ~raised[p]
       /\ analysis[p].relevance_score = 58
       /\ save[p] = "-"
       /\ \E i \in 1..Len(incidents) : incidents[i].relevance_score = MinStoreRelevance

\* C7: at the store gate the effective verdict is the primary verdict when
\* filter_credible_sources returned true (a primary is_credible = false
\* stays false), and is the primary verdict with is_credible = false and
\* half the relevance_score when it returned false.
C7_CombinationRule ==
    \A p \in Cycles :
       pc[p] = "gate" =>
          /\ is_credible[p] => analysis[p] = primary[p]
          /\ ~is_credible[p] =>
               /\ analysis[p].is_credible = FALSE
               /\ 2 * analysis[p].relevance_score = primary[p].relevance_score
               /\ analysis[p].severity = primary[p].severity
               /\ analysis[p].category = primary[p].category
               /\ analysis[p].summary = primary[p].summary

\* C7: a credible primary verdict of relevance 0.69 was overridden to 0.345
C7_Witness ==
    \E p \in Cycles :
       /\ pc[p] = "gate"
       /\ ~is_credible[p]
       /\ primary[p].is_credible
       /\ primary[p].relevance_score = 138
       /\ analysis[p].relevance_score = 69

\* the transport was called for user u exactly once in this send_notifications
AttemptedOnce(p, u) ==
    Cardinality({k \in 1..Len(attempts[p]) : attempts[p][k].user = u}) = 1

\* subscriber u has opted in and its location contains, or is contained
\* in, the location of the row (case-insensitively)
MatchingSubscriber(u, row) ==
    /\ users[u].email_notifications = TRUE
    /\ \/ IsSubstring(Lower(users[u].location), Lower(row.location))
       \/ IsSubstring(Lower(row.location), Lower(users[u].location))

\* process_incidents is inside send_notifications, or has returned from it
InDispatch(p) == pc[p] \in {"eligible", "send"}

\* the dispatch gate as C2 states it, without its last part: no step of
\* send_notifications, no transport call and no new NotificationLog row
\* unless the effective verdict has severity high or critical and
\* relevance_score >= 0.7 and the incident was saved
C2_OnlyIf(p) ==
    /\ (InDispatch(p) \/ attempts[p] # <<>> \/ log_commit[p] # "-") =>
          PassesNotifyGate(analysis[p]) /\ save[p] \in {"inserted", "updated"}
    /\ (pc[p] = "iter_done" /\ ~PassesNotifyGate(analysis[p])) =>
          attempts[p] = <<>> /\ Len(logs) = logs_before[p]

\* C2 (as stated): ... and, at the end of the iteration of a saved incident
\* whose effective verdict passes the dispatch gate, every opted-in
\* subscriber whose location matches was attempted exactly once.
C2_AsStated ==
    \A p \in Cycles :
       /\ C2_OnlyIf(p)
       /\ (/\ pc[p] = "iter_done"
           /\ save[p] \in {"inserted", "updated"}
           /\ PassesNotifyGate(analysis[p])) =>
             \A u \in 1..Len(users) :
                MatchingSubscriber(u, incidents[incident[p]]) => AttemptedOnce(p, u)

\* C2 (amended): send_notifications runs, the transport is called and
\* NotificationLog rows appear only for a saved incident whose effective
\* verdict has severity high or critical and relevance_score >= 0.7
\* (relevance 0.69: no call, no row); for such an incident, when the
\* subscriber query of get_eligible_users succeeds, every opted-in
\* subscriber whose location matches is attempted exactly once, and when
\* the query raises nobody is attempted.
C2_DispatchGate ==
    \A p \in Cycles :
       /\ C2_OnlyIf(p)
       /\ (/\ pc[p] = "iter_done"
           /\ save[p] \in {"inserted", "updated"}
           /\ PassesNotifyGate(analysis[p])) =>
             IF users_ok[p]
             THEN \A u \in 1..Len(users) :
                     MatchingSubscriber(u, incidents[incident[p]]) => AttemptedOnce(p, u)
             ELSE attempts[p] = <<>>

\* C2: severity high, relevance 0.70, saved, and both matching subscribers
\* attempted
C2_Witness ==
    \E p \in Cycles :
       /\ pc[p] = "iter_done"
       /\ analysis[p].severity = "high"
       /\ analysis[p].relevance_score = MinNotifyRelevance
       /\ users_ok[p]
       /\ Len(attempts[p]) = 2

\* the rows save_analyzed_incident deduplicates against, for the incident
\* of cycle p: same title and source, created within the last 24 hours
SameKeyInWindow(table, p) ==
    { i \in 1..Len(table) : /\ table[i].title = cur[p].title
                            /\ table[i].source = cur[p].source
                            /\ now - table[i].created_at <= DedupHours }

\* C3 (as stated): when save_analyzed_incident has ended for an incident,
\* at most one row with its (title, source) lies in the 24-hour window,
\* and such a row carries the verdict of this call and its time as
\* updated_at.
C3_AsStated ==
    \A p \in Cycles :
       (pc[p] \in {"notify_gate", "iter_done"} /\ save[p] # "-") =>
          /\ Cardinality(SameKeyInWindow(incidents, p)) <= 1
          /\ \A i \in SameKeyInWindow(incidents, p) :
                CarriesVerdict(incidents[i], analysis[p]) /\ incidents[i].updated_at = now

\* C3 (amended): with calls made one after the other, a call that finds a
\* row with the same (title, source) created within the last 24 hours
\* inserts no row, and when its commit succeeds it overwrites ai_summary,
\* relevance_score, severity, category, is_verified and updated_at of that
\* row with its verdict and leaves the other columns and rows alone; when
\* its lookup or commit raises the table is left as it was.  A call that
\* finds none inserts at most one row.  At most one row per (title,
\* source) lies in the window at any time.
C3_IdempotentUpsert ==
    [][ \A p \in Cycles :
          (pc[p] \in {"save_query", "save_commit"} /\ pc'[p] \in {"notify_gate", "iter_done"}) =>
             LET rows == SameKeyInWindow(incidents, p)
             IN  /\ Cardinality(rows) <= 1
                 /\ Cardinality(SameKeyInWindow(incidents', p)) <= 1
                 /\ rows # {} =>
                      /\ Len(incidents') = Len(incidents)
                      /\ save'[p] # "inserted"
                      /\ save'[p] = "updated" =>
                           \A i \in 1..Len(incidents) :
                              incidents'[i] =
                                 IF i \in rows
                                 THEN [incidents[i] EXCEPT
                                         !.ai_summary = analysis[p].summary,
                                         !.relevance_score = analysis[p].relevance_score,
                                         !.severity = analysis[p].severity,
                                         !.category = analysis[p].category,
                                         !.is_verified = analysis[p].is_credible,
                                         !.updated_at = now]
                                 ELSE incidents[i]
                      /\ save'[p] # "updated" => incidents' = incidents
                 /\ rows = {} =>
                      /\ save'[p] # "updated"
                      /\ Len(incidents') = Len(incidents) + (IF save'[p] = "inserted" THEN 1 ELSE 0)
                      /\ save'[p] # "inserted" => incidents' = incidents
      ]_vars

\* C3: a second call within the window has overwritten a row created
\* earlier with another verdict
C3_Witness ==
    \E p \in Cycles :
       /\ pc[p] = "notify_gate"
       /\ save[p] = "updated"
       /\ now = DedupHours
       /\ incidents[incident[p]].created_at = 0
       /\ incidents[incident[p]].updated_at = DedupHours
       /\ Len(incidents) = 1

\* send_notifications has returned in the current iteration of cycle p
SendReturned(p) == pc[p] = "iter_done" /\ log_commit[p] # "-"

\* the NotificationLog rows committed since send_notifications began are,
\* in order, one per transport call: for this incident and that user,
\* 'sent' for a call that returned true, and 'failed' with an error text
\* for one that returned false or raised
OneRowPerAttempt(p) ==
    /\ Len(logs) = logs_before[p] + Len(attempts[p])
    /\ \A k \in 1..Len(attempts[p]) :
          LET row == logs[logs_before[p] + k]
          IN  /\ row.incident_id = incident[p]
              /\ row.user_id = attempts[p][k].user
              /\ row.notification_type = "email"
              /\ attempts[p][k].outcome = "true" =>
                   row.status = "sent" /\ row.error_message = None
              /\ attempts[p][k].outcome # "true" =>
                   row.status = "failed" /\ row.error_message # None

\* C4 (as stated): once send_notifications has returned there is exactly
\* one committed NotificationLog row for every transport call it made,
\* also when its final commit failed.
C4_AsStated == \A p \in Cycles : SendReturned(p) => OneRowPerAttempt(p)

\* C4 (amended): once send_notifications has returned after a successful
\* final commit there is exactly one committed NotificationLog row for
\* every transport call it made ('sent' for true, 'failed' with an error
\* text for false or an exception); when the final commit fails the batch
\* is rolled back and no row of it is committed.
C4_RecordPerAttempt ==
    \A p \in Cycles :
       SendReturned(p) =>
          IF log_commit[p] = "committed"
          THEN OneRowPerAttempt(p)
          ELSE Len(logs) = logs_before[p]

\* C4: a committed batch of one raised and one successful attempt
C4_Witness ==
    \E p \in Cycles :
       /\ SendReturned(p)
       /\ log_commit[p] = "committed"
       /\ Len(attempts[p]) = 2
       /\ attempts[p][1].outcome = "raise"
       /\ attempts[p][2].outcome = "true"

\* C5: from the return of save_analyzed_incident with a row to the end of
\* the iteration, through every outcome of send_notifications, the row it
\* returned is in the table with the title, source, description and
\* location it was saved under, the verdict it was saved with and the
\* timestamps of that save, and the table has no other row than before.
C5_PersistenceIndependent ==
    \A p \in Cycles :
       (pc[p] \in {"notify_gate", "eligible", "send", "iter_done"}
          /\ save[p] \in {"inserted", "updated"}) =>
          /\ incident[p] \in 1..Len(incidents)
          /\ processed[p] # <<>>
          /\ processed[p][Len(processed[p])] = incident[p]
          /\ LET row == incidents[incident[p]]
             IN  /\ row.title = cur[p].title
                 /\ row.source = cur[p].source
                 /\ CarriesVerdict(row, analysis[p])
                 /\ row.updated_at = now
                 /\ save[p] = "inserted" =>
                      /\ incident[p] = Len(incidents)
                      /\ row.created_at = now
                      /\ row.description = cur[p].description
                      /\ row.location = cur[p].location

\* C5: the commit of the notification log failed and was rolled back after
\* a transport call, and the incident's row is still there
C5_Witness ==
    \E p \in Cycles :
       /\ pc[p] = "iter_done"
       /\ log_commit[p] = "rolled_back"
       /\ attempts[p] # <<>>
       /\ save[p] = "inserted"
       /\ incident[p] = Len(incidents)

\* the call or the parse of the response of analyze_incident failed
AnalysisFailed(resp) ==
    \/ resp.kind \in {"raise", "none", "empty", "notjson"}
    \/ resp.kind = "json" /\ ~(IncidentAnalysisFields \subseteq resp.data.typed)

\* C6: whenever the LLM call of analyze_incident raised or its response
\* was empty, not JSON or not an IncidentAnalysis, analyze_incident did
\* not raise and returned relevance_score 0.5, severity medium, category
\* other, is_credible true.
C6_ClassifierFallback ==
    \A p \in Cycles :
       (llm[p] # NoResponse /\ AnalysisFailed(llm[p])) =>
          /\ ~raised[p]
          /\ primary[p].relevance_score = 100
          /\ primary[p].severity = "medium"
          /\ primary[p].category = "other"
          /\ primary[p].is_credible = TRUE

\* the call behind filter_credible_sources failed: it raised, or its
\* response carried no text
CredibilityCallFailed(resp) ==
    \/ resp.kind \in {"raise", "none"}
    \/ resp.kind = "text" /\ resp.text = ""

\* C8: whenever the LLM call behind filter_credible_sources raised or
\* returned an empty response, filter_credible_sources returned true.
C8_PermissiveOnFailure ==
    \A p \in Cycles :
       (pc[p] = "gate" /\ CredibilityCallFailed(cred_resp[p])) => is_credible[p] = TRUE

\* the subscribers C9 says are selected for the row
MatchingSubscribers(row) == {u \in 1..Len(users) : MatchingSubscriber(u, row)}

\* the examples of C9: 'New York' and 'New York, NY' match in both roles,
\* 'Boston' matches neither
C9_Examples ==
    /\ LocationMatches("New York", "New York, NY")
    /\ LocationMatches("New York, NY", "New York")
    /\ ~LocationMatches("Boston", "New York")
    /\ ~LocationMatches("New York, NY", "Boston")

\* what C9 says of the match itself: swapping the two strings never changes
\* the result; no opted-out subscriber is selected or emailed
C9_Match(p) ==
    /\ C9_Examples
    /\ \A u \in 1..Len(users) :
          LocationMatches(users[u].location, incidents[incident[p]].location)
             = LocationMatches(incidents[incident[p]].location, users[u].location)
    /\ \A k \in 1..Len(eligible[p]) : users[eligible[p][k]].email_notifications
    /\ \A k \in 1..Len(attempts[p]) : users[attempts[p][k].user].email_notifications

\* get_eligible_users has returned to send_notifications
Selected(p) == pc[p] = "send"

LoopDone(p) == pc[p] = "send" /\ next_user[p] > Len(eligible[p])

\* C10: when the loop of send_notifications ends, the transport has been
\* called exactly once for every eligible subscriber, in order, and one
\* NotificationLog entry has been added for each, whatever the transport
\* did for the subscribers before; while the loop runs this holds of the
\* subscribers it has passed.
C10_FailureIsolation ==
    \A p \in Cycles :
       /\ pc[p] = "send" =>
            /\ Len(attempts[p]) = Len(session[p])
            /\ \A k \in 1..Len(attempts[p]) :
                  /\ k <= Len(eligible[p])
                  /\ attempts[p][k].user = eligible[p][k]
                  /\ session[p][k].user_id = eligible[p][k]
                  /\ session[p][k].incident_id = incident[p]
       /\ LoopDone(p) => Len(attempts[p]) = Len(eligible[p])

\* C10: the transport raised for the first subscriber, returned false for
\* the second, and both have their entry
C10_Witness ==
    \E p \in Cycles :
       /\ LoopDone(p)
       /\ Len(eligible[p]) = 2
       /\ attempts[p][1].outcome = "raise"
       /\ attempts[p][2].outcome = "false"
       /\ Len(session[p]) = 2

\* save_analyzed_incident has returned None in the current iteration
SaveFailed(p) == save[p] \in {"query_failed", "commit_failed"}

\* C11: a save_analyzed_incident call whose lookup or commit raises returns
\* None without raising and leaves the Incident table, the NotificationLog
\* table and processed_incidents as they were at the start of the
\* iteration; no transport call and no log entry is made for that incident;
\* the loop then goes on with the rest of the list, unchanged.
C11_IncidentIsolation ==
    [][\A p \in Cycles :
          /\ (pc[p] \in {"analyze", "credibility", "gate", "save_query"} /\ pc'[p] # pc[p]) =>
                /\ incidents' = incidents
                /\ logs' = logs
                /\ processed'[p] = processed[p]
          /\ (save[p] = "-" /\ save'[p] \in {"query_failed", "commit_failed"}) =>
                /\ incidents' = incidents
                /\ logs' = logs
                /\ Len(logs') = logs_before[p]
                /\ processed'[p] = processed[p]
                /\ batch'[p] = batch[p]
                /\ incident'[p] = 0
                /\ attempts'[p] = <<>>
                /\ session'[p] = <<>>
                /\ pc'[p] = "iter_done"
          /\ (SaveFailed(p) /\ pc[p] = "iter_done" /\ pc'[p] # pc[p]) =>
                /\ pc'[p] = "process"
                /\ incidents' = incidents
                /\ logs' = logs
                /\ processed'[p] = processed[p]
                /\ batch'[p] = batch[p]
                /\ attempts'[p] = <<>>
      ]_vars

\* C11: the commit of the first incident of a list of two has failed, the
\* loop is back at its head with the second incident still to process
C11_Witness ==
    \E p \in Cycles :
       /\ pc[p] = "process"
       /\ save[p] = "commit_failed"
       /\ Len(batch[p]) = 1
       /\ processed[p] = <<>>
       /\ incidents = <<>>
       /\ logs = <<>>

\* fetch_weather_data has returned in cycle p and fetch_news_data has not
\* been called yet
WeatherReturned(p) == pc[p] = "news" /\ weather_resp[p].status # "-"

\* fetch_news_data has returned in cycle p and process_incidents, if it is
\* called, has not taken its first incident yet
NewsReturned(p) == pc[p] \in {"process", "idle"} /\ news_resp[p] # <<>>

\* a transport-level failure of the current-weather call, of the alerts call
AlertsCallFailed(r) == r.status = "ok" /\ r.coord /\ r.alerts_status # "ok"

\* the keyword queries made: up to and including the first that fails
QueriesMade(rs) ==
    { k \in 1..NumKeywords : \A j \in 1..(k - 1) : rs[j].status = "ok" }

\* some keyword query made failed at transport level
NewsCallFailed(rs) == \E k \in QueriesMade(rs) : rs[k].status # "ok"

\* the incidents of the list that came from source src
FromSource(list, src) == SelectSeq(list, LAMBDA d : d.source = src)

\* the weather conditions of a response that are severe
SevereOf(r) == { i \in 1..Len(r.weather) : IsSevere(r.weather[i]) }

\* the articles kept of the queries that succeeded before the first failure
KeptOf(rs) ==
    UNION { { <<k, i>> : i \in { j \in 1..Len(rs[k].articles) : ArticleKept(rs[k].articles[j]) } } :
              k \in { q \in QueriesMade(rs) : rs[q].status = "ok" } }

\* C12 (as stated): when any HTTP call of an extractor fails at transport
\* level the extractor returns an empty list for its source; the cycle goes
\* on with the other source.
C12_AsStated ==
    \A p \in Cycles :
       /\ (WeatherReturned(p)
             /\ (weather_resp[p].status # "ok" \/ AlertsCallFailed(weather_resp[p])))
            => batch[p] = <<>>
       /\ (NewsReturned(p) /\ NewsCallFailed(news_resp[p]))
            => FromSource(batch[p], "news") = <<>>

\* C12 (amended): no transport failure stops the cycle.  A failed
\* current-weather call gives an empty weather list; a failed alerts call
\* (timeout or a status other than 200) gives the condition incidents
\* found before it and no alert incident; a failed keyword query gives the
\* incidents of the keywords queried before it; the incidents of the other
\* source are in the list handed to process_incidents.
C12_ExtractorErrorPolicy ==
    \A p \in Cycles :
       /\ WeatherReturned(p) =>
            LET r == weather_resp[p]
            IN  /\ r.status # "ok" => batch[p] = <<>>
                /\ AlertsCallFailed(r) =>
                     /\ Len(batch[p]) = Cardinality(SevereOf(r))
                     /\ \A i \in 1..Len(batch[p]) :
                          batch[p][i].url = "https://openweathermap.org/city/"
       /\ NewsReturned(p) =>
            LET r == weather_resp[p]
                rs == news_resp[p]
                weather == FromSource(batch[p], "weather")
                news == FromSource(batch[p], "news")
            IN  /\ batch[p] = weather \o news
                /\ NewsCallFailed(rs) => Len(news) = Cardinality(KeptOf(rs))
                /\ (r.status # "ok" \/ AlertsCallFailed(r)) =>
                     /\ Len(weather) = (IF r.status = "ok" THEN Cardinality(SevereOf(r)) ELSE 0)
                     /\ Len(news) = Cardinality(KeptOf(rs))
                /\ pc[p] = "process" <=> batch[p] # <<>>

\* C12: the alerts call timed out after a condition incident was found,
\* the second keyword query timed out after the first gave an article, and
\* both incidents are handed to process_incidents
C12_Witness ==
    \E p \in Cycles :
       /\ NewsReturned(p)
       /\ pc[p] = "process"
       /\ AlertsCallFailed(weather_resp[p])
       /\ weather_resp[p].alerts_status = "timeout"
       /\ NewsCallFailed(news_resp[p])
       /\ Len(FromSource(batch[p], "weather")) = 1
       /\ Len(FromSource(batch[p], "news")) = 1

\* an article with a title and a description, neither missing, null nor
\* empty, whose title does not hold the removed-marker
WellFormed(a) ==
    /\ a.title \notin {Missing, None, ""}
    /\ a.description \notin {Missing, None, ""}
    /\ \A k \in 1..Len(a.title) :
          k + 8 <= Len(a.title) => SubSeq(a.title, k, k + 8) # "[Removed]"

\* the well-formed articles of the answers the run got before its first
\* failed request: <<keyword index, position>>
WellFormedOf(rs) ==
    UNION { { <<k, i>> : i \in { j \in 1..Len(rs[k].articles) : WellFormed(rs[k].articles[j]) } } :
              k \in { q \in 1..NumKeywords : \A j \in 1..q : rs[j].status = "ok" } }

\* the well-formed articles of keyword k that count under a cap of PageSize
CappedOf(rs, k) ==
    { i \in 1..PageSize : <<k, i>> \in WellFormedOf(rs) }

\* the sum of f[k] over 1..n
RECURSIVE SumTo(_, _)
SumTo(f, n) == IF n = 0 THEN 0 ELSE f[n] + SumTo(f, n - 1)

\* C13 (as stated): requests go to the first 3 keywords; exactly the
\* well-formed articles are included; and the list holds at most 5
\* incidents per keyword, at most 15 in all, whatever the provider returns.
C13_AsStated ==
    news_out.done =>
       /\ \A k \in 1..Len(news_out.queried) : k <= NumKeywords /\ news_out.queried[k] = Keywords[k]
       /\ Len(news_out.incidents)
             <= SumTo([k \in 1..NumKeywords |-> Cardinality(CappedOf(news_in, k))], NumKeywords)
       /\ Len(news_out.incidents) <= NumKeywords * PageSize

\* C13 (amended): requests go to the first 3 keywords in list order, up to
\* and including the first that fails; the list holds one incident for each
\* well-formed article of the answers received before a failure and for no
\* other article, as many as the provider returned: pageSize = 5 is asked
\* of the provider and not enforced on its answer.
C13_NewsFilter ==
    news_out.done =>
       /\ \A k \in 1..Len(news_out.queried) :
             /\ news_out.queried[k] = Keywords[k]
             /\ \A j \in 1..(k - 1) : news_in[j].status = "ok"
       /\ Len(news_out.queried) <= NumKeywords
       /\ (\A k \in 1..NumKeywords : news_in[k].status = "ok")
             => Len(news_out.queried) = NumKeywords
       /\ (\E k \in 1..NumKeywords : news_in[k].status # "ok")
             => news_in[Len(news_out.queried)].status # "ok"
       /\ Len(news_out.incidents) = Cardinality(WellFormedOf(news_in))
       /\ \A i \in 1..Len(news_out.incidents) :
             /\ WellFormed(news_out.incidents[i])
             /\ news_out.incidents[i].source = "news"
             /\ news_out.incidents[i].location = default_location
             /\ \E w \in WellFormedOf(news_in) :
                   /\ news_in[w[1]].articles[w[2]].title = news_out.incidents[i].title
                   /\ news_in[w[1]].articles[w[2]].description = news_out.incidents[i].description

\* C13: a run whose three requests succeed, one answer holding PageSize + 1
\* well-formed articles, one an article with the removed-marker next to a
\* well-formed one; the list holds every well-formed article
C13_Witness ==
    /\ news_out.done
    /\ Len(news_out.queried) = NumKeywords
    /\ \E k \in 1..NumKeywords : Len(news_in[k].articles) = PageSize + 1
    /\ \E k \in 1..NumKeywords :
          news_in[k].status = "ok" /\ \E i \in 1..Len(news_in[k].articles) :
             news_in[k].articles[i].title = "[Removed]"
    /\ Len(news_out.incidents) > PageSize + 1

\* the values the prompt of analyze_incident asks for (gemini.py:32-34);
\* relevance 1.0 is 200 units
Severities == {"low", "medium", "high", "critical"}

Categories ==
    {"weather", "traffic", "crime", "emergency", "infrastructure", "health", "other"}

\* C14: every persisted Incident has a relevance_score within [0.0, 1.0], a
\* severity of the four levels and a category of the seven values, whatever
\* schema-valid object the LLM service returned.
C14_DomainInvariant ==
    \A i \in 1..Len(incidents) :
       /\ incidents[i].relevance_score >= 0
       /\ incidents[i].relevance_score <= 2 * FallbackRelevance
       /\ incidents[i].severity \in Severities
       /\ incidents[i].category \in Categories

\* the steps of one cycle, in the order of the code: from each place the
\* places control can go to next
After(place) ==
    CASE place = "idle"        -> {"news"}
      [] place = "news"        -> {"process", "idle"}
      [] place = "process"     -> {"analyze", "idle"}
      [] place = "analyze"     -> {"credibility", "iter_done"}
      [] place = "credibility" -> {"gate"}
      [] place = "gate"        -> {"save_query", "iter_done"}
      [] place = "save_query"  -> {"save_commit", "iter_done"}
      [] place = "save_commit" -> {"notify_gate", "iter_done"}
      [] place = "notify_gate" -> {"eligible", "iter_done"}
      [] place = "eligible"    -> {"send"}
      [] place = "send"        -> {"send", "iter_done"}
      [] place = "iter_done"   -> {"process"}

\* the incidents still to come: cur when an iteration is under way, then batch
ToCome(p) ==
    IF pc[p] \in {"idle", "news", "process"} THEN batch[p] ELSE <<cur[p]>> \o batch[p]

\* C15: in one cycle weather extraction returns before news extraction is
\* called; when both lists are empty nothing is classified, stored or
\* dispatched; otherwise the incidents are taken one at a time in list
\* order, weather first, each through classify, credibility check, store
\* gate, commit, dispatch gate, dispatch in that order, an iteration ending
\* before the next incident is taken; the Incident table changes only at
\* the commit of save_analyzed_incident, the transport is called and the
\* NotificationLog written only after that commit, for the committed row.
C15_CycleOrdering ==
    [][/\ \A p \in Cycles :
            /\ pc'[p] # pc[p] => pc'[p] \in After(pc[p])
            /\ pc[p] = "idle" /\ pc'[p] = "news" =>
                  /\ \A i \in 1..Len(batch'[p]) : batch'[p][i].source = "weather"
                  /\ news_resp'[p] = <<>>
            /\ pc[p] = "news" /\ pc'[p] # "news" =>
                  /\ SubSeq(batch'[p], 1, Len(batch[p])) = batch[p]
                  /\ \A i \in (Len(batch[p]) + 1)..Len(batch'[p]) : batch'[p][i].source = "news"
                  /\ pc'[p] = "idle" <=> batch'[p] = <<>>
                  /\ UNCHANGED <<incidents, logs, llm, cred_resp, attempts, session>>
            /\ pc[p] = "process" /\ pc'[p] = "analyze" =>
                  /\ batch[p] # <<>>
                  /\ cur'[p] = batch[p][1]
                  /\ batch'[p] = SubSeq(batch[p], 2, Len(batch[p]))
            /\ pc[p] \notin {"process", "news", "idle"} =>
                  (cur'[p] = cur[p] /\ batch'[p] = batch[p])
            /\ attempts'[p] # attempts[p] /\ attempts'[p] # <<>> =>
                  /\ pc[p] = "send"
                  /\ save[p] \in {"inserted", "updated"}
                  /\ incident[p] \in 1..Len(incidents)
                  /\ incidents[incident[p]].title = cur[p].title
                  /\ incidents[incident[p]].source = cur[p].source
                  /\ \A k \in 1..Len(session'[p]) : session'[p][k].incident_id = incident[p]
       /\ incidents' # incidents =>
             \E p \in Cycles :
                /\ pc[p] = "save_commit"
                /\ pc'[p] = "notify_gate"
                /\ incident'[p] \in 1..Len(incidents')
                /\ incidents'[incident'[p]].title = cur[p].title
                /\ incidents'[incident'[p]].source = cur[p].source
       /\ logs' # logs =>
             \E p \in Cycles :
                /\ pc[p] = "send"
                /\ save[p] \in {"inserted", "updated"}
                /\ logs' = logs \o session[p]
                /\ \A k \in 1..Len(session[p]) : session[p][k].incident_id = incident[p]
      ]_vars

\* C15: the weather incident of a list of two is being dispatched from its
\* committed row while the news incident waits in the list
C15_Witness ==
    \E p \in Cycles :
       /\ pc[p] = "send"
       /\ cur[p].source = "weather"
       /\ Len(batch[p]) = 1
       /\ batch[p][1].source = "news"
       /\ attempts[p] # <<>>
       /\ incidents[incident[p]].title = cur[p].title

\* rows i and j carry the same (title, source) and both were created within
\* the dedup window that ends now
DuplicateInWindow(i, j) ==
    /\ i # j
    /\ incidents[i].title = incidents[j].title
    /\ incidents[i].source = incidents[j].source
    /\ incidents[i].created_at >= now - DedupHours
    /\ incidents[j].created_at >= now - DedupHours

\* C16: nothing coordinates two cycles.  A thread that is idle can start a
\* cycle whatever the other thread is doing (as long as the model's budget
\* of extracted incidents lasts), and a save_analyzed_incident whose lookup
\* found no row inserts one at its commit whatever has been committed by
\* the other cycle since the lookup.
C16_NoCoordination ==
    \A p \in Cycles :
       /\ (pc[p] = "idle" /\ fetched < MaxIncidents) => ENABLED FetchWeather(p)
       /\ (pc[p] = "save_commit" /\ found[p] = 0) =>
             ENABLED (SaveCommit(p) /\ Len(incidents') = Len(incidents) + 1)

\* C16: two overlapping cycles have each inserted a row for the same
\* (title, source) inside the dedup window, and each has committed a
\* NotificationLog entry for its own row
C16_Witness ==
    /\ Len(incidents) = 2
    /\ DuplicateInWindow(1, 2)
    /\ \E k \in 1..Len(logs) : logs[k].incident_id = 1
    /\ \E k \in 1..Len(logs) : logs[k].incident_id = 2

\* the committed NotificationLog rows of incident i and subscriber u among
\* the rows at positions lo..hi
RecordsFor(i, u, lo, hi) ==
    { k \in lo..hi : logs[k].incident_id = i /\ logs[k].user_id = u }

\* the iteration of cycle p has ended for an incident whose (title, source)
\* was already stored, its row updated, its verdict passing the dispatch gate
RepeatedPass(p) ==
    /\ pc[p] = "iter_done"
    /\ save[p] = "updated"
    /\ PassesNotifyGate(analysis[p])

C18_NonCredibleDropped ==
    [][\A p \in Cycles :
          /\ (pc[p] = "gate" /\ pc'[p] # "gate" /\ ~is_credible[p]) =>
                /\ analysis[p].is_credible = FALSE
                /\ pc'[p] = "iter_done"
                /\ incidents' = incidents
                /\ logs' = logs
                /\ attempts'[p] = <<>>
                /\ session'[p] = <<>>
                /\ save'[p] = "-"
          /\ (pc[p] = "gate" /\ pc'[p] = "save_query") =>
                /\ is_credible[p]
                /\ analysis[p] = primary[p]
          /\ (pc[p] = "iter_done" /\ save[p] = "-" /\ pc'[p] # pc[p]) =>
                /\ pc'[p] = "process"
                /\ incidents' = incidents
                /\ logs' = logs
          /\ pc[p] \in {"save_query", "save_commit", "notify_gate", "eligible", "send"} =>
                analysis'[p] = analysis[p]
      ]_vars

\* C18: a primary verdict of relevance 0.7 and severity high, credible, was
\* overridden to 0.35 and not credible: the iteration has ended with
\* nothing stored and nothing sent
C18_Witness ==
    \E p \in Cycles :
       /\ pc[p] = "iter_done"
       /\ analysis[p].relevance_score = MinNotifyRelevance \div 2
       /\ analysis[p].relevance_score >= MinStoreRelevance
       /\ analysis[p].severity = "high"
       /\ ~analysis[p].is_credible
       /\ save[p] = "-"
       /\ incidents = <<>>
       /\ logs = <<>>

\* the analysis-derived columns of a row are the fallback values
HoldsFallback(row) ==
    /\ row.relevance_score = FallbackRelevance
    /\ row.severity = "medium"
    /\ row.category = "other"
    /\ row.is_verified = TRUE

\* C19: at the end of the iteration of an incident whose analyze_incident
\* call failed (and whose credibility check gave true), the incident has
\* passed the store gate and gone to save_analyzed_incident, the row it
\* wrote, new or existing, holds the fallback values with severity
\* 'medium', and no transport call and no NotificationLog row was made.
C19_FallbackCycle ==
    \A p \in Cycles :
       (pc[p] = "iter_done" /\ (raised[p] \/ analysis[p] = FallbackAnalysis)) =>
          /\ save[p] # "-"
          /\ save[p] \in {"inserted", "updated"} => HoldsFallback(incidents[incident[p]])
          /\ attempts[p] = <<>>
          /\ log_commit[p] = "-"
          /\ Len(logs) = logs_before[p]

=============================================================================
